---- MODULE Spec2Model ----
(***************************************************************************)
(* Model of "Crashlanding" (src/first.py): the Character / Player / Enemy  *)
(* arithmetic, the story graph with its one-time node effects, the         *)
(* turn-based battle system and the three-button scene the Game emits.     *)
(* Handlers are translated as functions from the game record g to the game *)
(* record after the handler has run to completion; the actions commit the  *)
(* result of one handler call.  Python's 0-based button indices are kept.  *)
(***************************************************************************)
EXTENDS Integers, Sequences, FiniteSets, TLC

VARIABLES
    player,            \* Game.player (a Player)
    current_node_id,   \* Game.current_node_id
    current_enemy,     \* Game.current_enemy (NoEnemy models None)
    victory_target,    \* Game.victory_target
    battle_log,        \* Game.battle_log
    flags,             \* Game.flags
    sprite_label,      \* GameUI.sprite_label text
    text_widget,       \* GameUI.text_widget content, a sequence of lines
    button_text,       \* GameUI.option_buttons[i] text
    button_state,      \* GameUI.option_buttons[i] state
    button_callbacks,  \* GameUI.button_callbacks
    messagebox,        \* the title of the modal dialog on show, None if none
    error,             \* the exception a handler died with, None if none
    turns,             \* observer: accepted player_action calls charged so far
    called             \* observer: the method a scenario called directly, the
                       \* object it was called on or with, its argument and
                       \* the value it returned

vars == <<player, current_node_id, current_enemy, victory_target, battle_log,
          flags, sprite_label, text_widget, button_text, button_state,
          button_callbacks, messagebox, error, turns, called>>

(***************************************************************************)
(* Bounds of the model.                                                    *)
(***************************************************************************)
\* accepted player_action calls explored in one session
MaxTurns == 1
\* Player.add_exp is called with amounts 0..MaxExpAward
MaxExpAward == 100
\* ... on players of level 1..MaxStartLevel
MaxStartLevel == 2
\* Player.use_medkit is called on players with 0..MaxMedkits medkits
MaxMedkits == 4
\* ... who are 0..MaxHurt health points below their max_health
MaxHurt == 45

None == "None"

Max(a, b) == IF a >= b THEN a ELSE b
Min(a, b) == IF a <= b THEN a ELSE b

\* one narration line: the fixed text, the name it mentions, its numbers
Line(msg, who, n, m) == [msg |-> msg, who |-> who, n |-> n, m |-> m]

\* random.randint(lo, hi)
RandInt(lo, hi) == lo..hi

(***************************************************************************)
(* Character, Player, Enemy                                                *)
(***************************************************************************)
\* take_damage without the floor at 0
take_damage_unfloored(self, damage) ==
    LET dmg == Max(0, damage)
    IN  [self |-> [self EXCEPT !.health = self.health - dmg], ret |-> dmg]

take_damage(self, damage) ==
    LET dmg == Max(0, damage)
        h == self.health - dmg
    IN  [self |-> [self EXCEPT !.health = IF h < 0 THEN 0 ELSE h], ret |-> dmg]

heal(self, amount) ==
    LET amt == Max(0, amount)
        before == self.health
        after == Min(self.max_health, self.health + amt)
    IN  [self |-> [self EXCEPT !.health = after], ret |-> after - before]

\* is_alive that counts a character at 0 health as alive
is_alive_at_zero(self) == self.health >= 0

is_alive(self) == self.health > 0

Player(name) ==
    [name |-> name, max_health |-> 100, health |-> 100, attack |-> 20,
     level |-> 1, exp |-> 0, inventory |-> [Medkit |-> 3], skill_points |-> 0]

\* a threshold that does not grow with the level
exp_to_next_level_flat(self) == 20

exp_to_next_level(self) == 20 + (self.level - 1) * 10

\* add_exp with `if` for `while`: one level-up per call at most
add_exp_once(self, amount) ==
    LET s == [self EXCEPT !.exp = self.exp + amount]
        logs == <<Line("gained XP", self.name, amount, 0)>>
    IN  IF s.exp >= 20 + (s.level - 1) * 10
        THEN LET p == [s EXCEPT !.exp = s.exp - (20 + (s.level - 1) * 10),
                                !.level = s.level + 1,
                                !.skill_points = s.skill_points + 1,
                                !.max_health = s.max_health + 10,
                                !.health = s.max_health + 10,
                                !.attack = s.attack + 2]
             IN  [self |-> p,
                  ret |-> Append(logs, Line("leveled up to", p.name, p.level,
                                            p.skill_points))]
        ELSE [self |-> s, ret |-> logs]

RECURSIVE add_exp_loop(_, _)
add_exp_loop(self, logs) ==
    IF self.exp >= exp_to_next_level(self)
    THEN LET p == [self EXCEPT !.exp = self.exp - exp_to_next_level(self),
                               !.level = self.level + 1,
                               !.skill_points = self.skill_points + 1,
                               !.max_health = self.max_health + 10,
                               !.health = self.max_health + 10,
                               !.attack = self.attack + 2]
         IN  add_exp_loop(p, Append(logs,
                 Line("leveled up to", p.name, p.level, p.skill_points)))
    ELSE [self |-> self, ret |-> logs]

\* add_exp that looks for level-ups before it adds the award
add_exp_award_after(self, amount) ==
    LET up == add_exp_loop(self, <<Line("gained XP", self.name, amount, 0)>>)
    IN  [up EXCEPT !.self.exp = up.self.exp + amount]

\* add_exp whose level-up adds 1 to the attack
add_exp_attack_plus_one(self, amount) ==
    LET up == add_exp_loop([self EXCEPT !.exp = self.exp + amount],
                           <<Line("gained XP", self.name, amount, 0)>>)
    IN  [up EXCEPT !.self.attack = self.attack + (up.self.level - self.level)]

\* add_exp whose level-up forgets the attack bonus
add_exp_keep_attack(self, amount) ==
    LET up == add_exp_loop([self EXCEPT !.exp = self.exp + amount],
                           <<Line("gained XP", self.name, amount, 0)>>)
    IN  [up EXCEPT !.self.attack = self.attack]

add_exp(self, amount) ==
    add_exp_loop([self EXCEPT !.exp = self.exp + amount],
                 <<Line("gained XP", self.name, amount, 0)>>)

\* use_medkit that takes the medkit out of the pack before it checks the pack
use_medkit_decrement_first(self) ==
    LET p == [self EXCEPT !.inventory.Medkit = self.inventory.Medkit - 1]
        h == heal(p, 30)
    IN  IF self.inventory.Medkit <= 0
        THEN [self |-> p,
              ret |-> Line("You rummage through your pack... no medkits left!", "", 0, 0)]
        ELSE [self |-> h.self,
              ret |-> Line("You use a Medkit and recover", "", h.ret, 0)]

\* use_medkit that leaves the medkit in the pack
use_medkit_endless(self) ==
    IF self.inventory.Medkit <= 0
    THEN [self |-> self,
          ret |-> Line("You rummage through your pack... no medkits left!", "", 0, 0)]
    ELSE LET h == heal(self, 30)
         IN  [self |-> h.self,
              ret |-> Line("You use a Medkit and recover", "", h.ret, 0)]

\* use_medkit that heals before it checks the pack
use_medkit_heal_first(self) ==
    LET h == heal(self, 30)
    IN  IF self.inventory.Medkit <= 0
        THEN [self |-> h.self,
              ret |-> Line("You rummage through your pack... no medkits left!", "", 0, 0)]
        ELSE [self |-> [h.self EXCEPT !.inventory.Medkit = self.inventory.Medkit - 1],
              ret |-> Line("You use a Medkit and recover", "", h.ret, 0)]

\* use_medkit that keeps the medkit when there is nothing to heal
use_medkit_keep_when_full(self) ==
    IF self.inventory.Medkit <= 0
    THEN [self |-> self,
          ret |-> Line("You rummage through your pack... no medkits left!", "", 0, 0)]
    ELSE LET h == heal(self, 30)
         IN  [self |-> IF h.ret = 0 THEN self
                       ELSE [h.self EXCEPT !.inventory.Medkit = self.inventory.Medkit - 1],
              ret |-> Line("You use a Medkit and recover", "", h.ret, 0)]

use_medkit(self) ==
    IF self.inventory.Medkit <= 0
    THEN [self |-> self,
          ret |-> Line("You rummage through your pack... no medkits left!", "", 0, 0)]
    ELSE LET p == [self EXCEPT !.inventory.Medkit = self.inventory.Medkit - 1]
             h == heal(p, 30)
         IN  [self |-> h.self,
              ret |-> Line("You use a Medkit and recover", "", h.ret, 0)]

NewEnemy(name, max_health, attack, exp_reward) ==
    [name |-> name, max_health |-> max_health, health |-> max_health,
     attack |-> attack, exp_reward |-> exp_reward]

\* Game.current_enemy = None, and an Option without enemy_factory
NoEnemy == [name |-> None, max_health |-> 0, health |-> 0, attack |-> 0,
            exp_reward |-> 0]

(***************************************************************************)
(* Story structures and the authored story graph                           *)
(***************************************************************************)
Option(text, kind, target, enemy_factory, end_text) ==
    [text |-> text, kind |-> kind, target |-> target,
     enemy_factory |-> enemy_factory, end_text |-> end_text]

StoryNode(node_id, description, sprite_text, options) ==
    [node_id |-> node_id, description |-> description,
     sprite_text |-> sprite_text, options |-> options]

story_nodes ==
  "intro" :> StoryNode("intro", "intro.description", "Crash Site", <<
        Option("Check the crash site for supplies.",
               "story", "wreckage", NoEnemy, None),
        Option("Head toward the glowing forest.",
               "story", "forest_edge", NoEnemy, None),
        Option("Climb a nearby ridge to scan for rescue.",
               "story", "ridge", NoEnemy, None)>>) @@
  "wreckage" :> StoryNode("wreckage", "wreckage.description", "Twisted Wreckage", <<
        Option("Return to the clearing.",
               "story", "intro", NoEnemy, None),
        Option("Head toward the glowing forest.",
               "story", "forest_edge", NoEnemy, None),
        Option("Rest for a moment to gather your thoughts.",
               "story", "rest1", NoEnemy, None)>>) @@
  "forest_edge" :> StoryNode("forest_edge", "forest_edge.description", "Glowing Forest Edge", <<
        Option("Call out, trying to sound friendly.",
               "battle", "post_frog", NewEnemy("Tusked Frog", 50, 12, 25), None),
        Option("Slowly back away toward the ridge.",
               "story", "ridge", NoEnemy, None),
        Option("Charge into the forest, weapon raised.",
               "battle", "post_frog", NewEnemy("Forest Stalker", 60, 14, 30), None)>>) @@
  "ridge" :> StoryNode("ridge", "ridge.description", "Windy Ridge", <<
        Option("Rig the beacon using pod batteries.",
               "story", "beacon_online", NoEnemy, None),
        Option("Return to the crash site.",
               "story", "intro", NoEnemy, None),
        Option("Descend on the far side, toward a shadowed valley.",
               "story", "deep_valley", NoEnemy, None)>>) @@
  "rest1" :> StoryNode("rest1", "rest1.description", "Quiet Moment", <<
        Option("Head toward the forest.",
               "story", "forest_edge", NoEnemy, None),
        Option("Climb to the ridge.",
               "story", "ridge", NoEnemy, None),
        Option("Search the wreckage one last time.",
               "story", "wreckage", NoEnemy, None)>>) @@
  "post_frog" :> StoryNode("post_frog", "post_frog.description", "Clearing After Battle", <<
        Option("Harvest the pods for food.",
               "story", "food_found", NoEnemy, None),
        Option("Press deeper into the forest.",
               "story", "deep_forest", NoEnemy, None),
        Option("Head back to the ridge with new confidence.",
               "story", "ridge", NoEnemy, None)>>) @@
  "food_found" :> StoryNode("food_found", "food_found.description", "Foraged Supplies", <<
        Option("Return to the ridge to focus on rescue.",
               "story", "beacon_online", NoEnemy, None),
        Option("Make a small camp in the forest.",
               "story", "camp_good", NoEnemy, None),
        Option("Head back to the crash site.",
               "story", "intro", NoEnemy, None)>>) @@
  "deep_forest" :> StoryNode("deep_forest", "deep_forest.description", "Deep Forest", <<
        Option("Investigate a patch of red, pulsing flowers.",
               "battle", "post_plant", NewEnemy("Carnivorous Bloom", 70, 15, 35), None),
        Option("Return toward the crash site while you still remember the way.",
               "story", "intro", NoEnemy, None),
        Option("Circle around toward the ridge, marking trees as you go.",
               "story", "ridge", NoEnemy, None)>>) @@
  "post_plant" :> StoryNode("post_plant", "post_plant.description", "Wilting Clearing", <<
        Option("Use the power cells to supercharge your beacon at the ridge.",
               "story", "beacon_online", NoEnemy, None),
        Option("Carry the cells back to camp and store them.",
               "story", "camp_good", NoEnemy, None),
        Option("Press even deeper into the forest, hunting for more secrets.",
               "story", "forest_depths", NoEnemy, None)>>) @@
  "forest_depths" :> StoryNode("forest_depths", "forest_depths.description", "Forest Depths", <<
        Option("Claim this area as your permanent home.",
               "end", None, NoEnemy, "forest_depths.options[0].end_text"),
        Option("Return to your earlier camp with new knowledge.",
               "story", "camp_good", NoEnemy, None),
        Option("Head back toward the ridge to attempt rescue.",
               "story", "beacon_online", NoEnemy, None)>>) @@
  "deep_valley" :> StoryNode("deep_valley", "deep_valley.description", "Shadowed Valley", <<
        Option("Approach the probe cautiously.",
               "battle", "probe_salvaged", NewEnemy("Valley Hunter", 75, 16, 40), None),
        Option("Leave it and head to the forest instead.",
               "story", "forest_edge", NoEnemy, None),
        Option("Camp here for the night despite the chill.",
               "end", None, NoEnemy, "deep_valley.options[2].end_text")>>) @@
  "probe_salvaged" :> StoryNode("probe_salvaged", "probe_salvaged.description", "Alien Probe", <<
        Option("Carry the salvaged tech back up to the ridge beacon.",
               "story", "beacon_online", NoEnemy, None),
        Option("Drag the probe toward the forest to study later.",
               "story", "deep_forest", NoEnemy, None),
        Option("Use the probe's casing to reinforce a shelter here.",
               "end", None, NoEnemy, "probe_salvaged.options[2].end_text")>>) @@
  "beacon_online" :> StoryNode("beacon_online", "beacon_online.description", "Rescue Incoming", <<
        Option("Signal frantically and prepare for pickup.",
               "end", None, NoEnemy, "beacon_online.options[0].end_text"),
        Option("Refuse rescue and stay to study the planet.",
               "end", None, NoEnemy, "beacon_online.options[1].end_text"),
        Option("Ask them to send supplies, not extraction.",
               "end", None, NoEnemy, "beacon_online.options[2].end_text")>>) @@
  "camp_good" :> StoryNode("camp_good", "camp_good.description", "Hidden Camp", <<
        Option("Focus on improving the camp for long-term survival.",
               "end", None, NoEnemy, "camp_good.options[0].end_text"),
        Option("Use the camp as a base while you fix the beacon.",
               "story", "beacon_online", NoEnemy, None),
        Option("Abandon the camp and roam freely.",
               "end", None, NoEnemy, "camp_good.options[2].end_text")>>)


(***************************************************************************)
(* The game record a handler works on                                      *)
(***************************************************************************)
Buttons == 0..2

\* button_callbacks[i] = None
NoCallback == [fn |-> None, option |-> Option(None, None, None, NoEnemy, None),
               action |-> None, node_id |-> None]

\* the closure _make_option_handler(option) returns
_make_option_handler(option) ==
    [fn |-> "handler", option |-> option, action |-> None, node_id |-> None]

\* lambda: self.player_action(action)
PlayerActionCallback(action) ==
    [NoCallback EXCEPT !.fn = "player_action", !.action = action]

\* lambda: self.go_to_node(target)
GoToNodeCallback(target) ==
    [NoCallback EXCEPT !.fn = "go_to_node", !.node_id = target]

game ==
    [player |-> player, current_node_id |-> current_node_id,
     current_enemy |-> current_enemy, victory_target |-> victory_target,
     battle_log |-> battle_log, flags |-> flags, sprite_label |-> sprite_label,
     text_widget |-> text_widget, button_text |-> button_text,
     button_state |-> button_state, button_callbacks |-> button_callbacks,
     messagebox |-> messagebox, error |-> error]

\* Game.__init__ with the GameUI it builds
NewGame ==
    [player |-> Player("Astronaut"),
     current_node_id |-> None,
     current_enemy |-> NoEnemy,
     victory_target |-> None,
     battle_log |-> << >>,
     flags |-> [wreckage_looted |-> FALSE, rest1_healed |-> FALSE,
                camp_good_healed |-> FALSE],
     sprite_label |-> Line("", "", 0, 0),
     text_widget |-> << >>,
     button_text |-> (0 :> "Option 1" @@ 1 :> "Option 2" @@ 2 :> "Option 3"),
     button_state |-> [i \in Buttons |-> "normal"],
     button_callbacks |-> [i \in Buttons |-> NoCallback],
     messagebox |-> None,
     error |-> None]

(***************************************************************************)
(* GameUI                                                                  *)
(***************************************************************************)
\* set_scene that leaves the callbacks of the unused slots as they were
set_scene_keep_callbacks(g, sprite_text, main_text, options) ==
    [g EXCEPT
       !.sprite_label = sprite_text,
       !.text_widget = main_text,
       !.button_callbacks =
           [i \in Buttons |-> IF i < Len(options) THEN options[i + 1].cb
                              ELSE g.button_callbacks[i]],
       !.button_text =
           [i \in Buttons |-> IF i < Len(options) THEN options[i + 1].text
                              ELSE "---"],
       !.button_state =
           [i \in Buttons |-> IF i < Len(options) THEN "normal" ELSE "disabled"]]

\* options: a sequence of [text, cb] pairs
set_scene(g, sprite_text, main_text, options) ==
    [g EXCEPT
       !.sprite_label = sprite_text,
       !.text_widget = main_text,
       !.button_callbacks =
           [i \in Buttons |-> IF i < Len(options) THEN options[i + 1].cb
                              ELSE NoCallback],
       !.button_text =
           [i \in Buttons |-> IF i < Len(options) THEN options[i + 1].text
                              ELSE "---"],
       !.button_state =
           [i \in Buttons |-> IF i < Len(options) THEN "normal" ELSE "disabled"]]

append_log_and_show_options(g, sprite_text, extra_log, options) ==
    set_scene(g, sprite_text, g.text_widget \o extra_log, options)

\* game_over that shows the text and leaves the buttons as they are
game_over_text_only(g, text) ==
    [g EXCEPT !.sprite_label = Line("Game Over", "", 0, 0), !.text_widget = text,
              !.messagebox = "Game Over"]

\* game_over up to messagebox.showinfo, which waits for the user in Tk's
\* event loop
game_over(g, text) ==
    [set_scene(g, Line("Game Over", "", 0, 0), text, << >>)
        EXCEPT !.messagebox = "Game Over"]

\* the rest of game_over, once the dialog is dismissed
game_over_dismissed(g) ==
    [g EXCEPT !.button_state = [i \in Buttons |-> "disabled"],
              !.messagebox = None]

(***************************************************************************)
(* Game: story navigation and passive effects                              *)
(***************************************************************************)
\* go_to_node that forgets to set rest1_healed
go_to_node_rest_again(g, node_id) ==
    IF node_id \notin DOMAIN story_nodes
    THEN [g EXCEPT !.error = "KeyError"]
    ELSE
    LET node == story_nodes[node_id]
        g1 == [g EXCEPT !.current_node_id = node_id]
        fx ==
          IF node_id = "wreckage" THEN
            IF ~g1.flags.wreckage_looted
            THEN [g |-> [g1 EXCEPT
                           !.player.inventory.Medkit = g1.player.inventory.Medkit + 1,
                           !.flags.wreckage_looted = TRUE],
                  extra_logs |-> <<Line("You gain +1 Medkit from the wreckage.", "", 0, 0)>>]
            ELSE [g |-> g1,
                  extra_logs |-> <<Line("You've already salvaged everything useful here.", "", 0, 0)>>]
          ELSE IF node_id = "rest1" THEN
            IF ~g1.flags.rest1_healed
            THEN LET h == heal(g1.player, 15)
                 IN  [g |-> [g1 EXCEPT !.player = h.self],
                      extra_logs |-> <<Line("You feel a bit better. (+ HP)", "", h.ret, 0)>>]
            ELSE [g |-> g1,
                  extra_logs |-> <<Line("You've already rested here; your body aches to keep moving.", "", 0, 0)>>]
          ELSE IF node_id = "camp_good" THEN
            IF ~g1.flags.camp_good_healed
            THEN LET h == heal(g1.player, 20)
                 IN  [g |-> [g1 EXCEPT !.player = h.self,
                                       !.flags.camp_good_healed = TRUE],
                      extra_logs |-> <<Line("Resting at camp restores your strength. (+ HP)", "", h.ret, 0)>>]
            ELSE [g |-> g1,
                  extra_logs |-> <<Line("The camp feels familiar now, but offers no new comfort.", "", 0, 0)>>]
          ELSE [g |-> g1, extra_logs |-> << >>]
        main_text == <<Line(node.description, "", 0, 0)>> \o fx.extra_logs
        options == [i \in 1..Len(node.options) |->
                      [text |-> node.options[i].text,
                       cb |-> _make_option_handler(node.options[i])]]
    IN  set_scene(fx.g, Line(node.sprite_text, "", 0, 0), main_text, options)

\* go_to_node that records the node id before it looks the node up
go_to_node_assign_first(g, node_id) ==
    IF node_id \notin DOMAIN story_nodes
    THEN [g EXCEPT !.current_node_id = node_id, !.error = "KeyError"]
    ELSE
    LET node == story_nodes[node_id]
        g1 == [g EXCEPT !.current_node_id = node_id]
        fx ==
          IF node_id = "wreckage" THEN
            IF ~g1.flags.wreckage_looted
            THEN [g |-> [g1 EXCEPT
                           !.player.inventory.Medkit = g1.player.inventory.Medkit + 1,
                           !.flags.wreckage_looted = TRUE],
                  extra_logs |-> <<Line("You gain +1 Medkit from the wreckage.", "", 0, 0)>>]
            ELSE [g |-> g1,
                  extra_logs |-> <<Line("You've already salvaged everything useful here.", "", 0, 0)>>]
          ELSE IF node_id = "rest1" THEN
            IF ~g1.flags.rest1_healed
            THEN LET h == heal(g1.player, 15)
                 IN  [g |-> [g1 EXCEPT !.player = h.self,
                                       !.flags.rest1_healed = TRUE],
                      extra_logs |-> <<Line("You feel a bit better. (+ HP)", "", h.ret, 0)>>]
            ELSE [g |-> g1,
                  extra_logs |-> <<Line("You've already rested here; your body aches to keep moving.", "", 0, 0)>>]
          ELSE IF node_id = "camp_good" THEN
            IF ~g1.flags.camp_good_healed
            THEN LET h == heal(g1.player, 20)
                 IN  [g |-> [g1 EXCEPT !.player = h.self,
                                       !.flags.camp_good_healed = TRUE],
                      extra_logs |-> <<Line("Resting at camp restores your strength. (+ HP)", "", h.ret, 0)>>]
            ELSE [g |-> g1,
                  extra_logs |-> <<Line("The camp feels familiar now, but offers no new comfort.", "", 0, 0)>>]
          ELSE [g |-> g1, extra_logs |-> << >>]
        main_text == <<Line(node.description, "", 0, 0)>> \o fx.extra_logs
        options == [i \in 1..Len(node.options) |->
                      [text |-> node.options[i].text,
                       cb |-> _make_option_handler(node.options[i])]]
    IN  set_scene(fx.g, Line(node.sprite_text, "", 0, 0), main_text, options)

go_to_node(g, node_id) ==
    IF node_id \notin DOMAIN story_nodes
    THEN [g EXCEPT !.error = "KeyError"]
    ELSE
    LET node == story_nodes[node_id]
        g1 == [g EXCEPT !.current_node_id = node_id]
        fx ==
          IF node_id = "wreckage" THEN
            IF ~g1.flags.wreckage_looted
            THEN [g |-> [g1 EXCEPT
                           !.player.inventory.Medkit = g1.player.inventory.Medkit + 1,
                           !.flags.wreckage_looted = TRUE],
                  extra_logs |-> <<Line("You gain +1 Medkit from the wreckage.", "", 0, 0)>>]
            ELSE [g |-> g1,
                  extra_logs |-> <<Line("You've already salvaged everything useful here.", "", 0, 0)>>]
          ELSE IF node_id = "rest1" THEN
            IF ~g1.flags.rest1_healed
            THEN LET h == heal(g1.player, 15)
                 IN  [g |-> [g1 EXCEPT !.player = h.self,
                                       !.flags.rest1_healed = TRUE],
                      extra_logs |-> <<Line("You feel a bit better. (+ HP)", "", h.ret, 0)>>]
            ELSE [g |-> g1,
                  extra_logs |-> <<Line("You've already rested here; your body aches to keep moving.", "", 0, 0)>>]
          ELSE IF node_id = "camp_good" THEN
            IF ~g1.flags.camp_good_healed
            THEN LET h == heal(g1.player, 20)
                 IN  [g |-> [g1 EXCEPT !.player = h.self,
                                       !.flags.camp_good_healed = TRUE],
                      extra_logs |-> <<Line("Resting at camp restores your strength. (+ HP)", "", h.ret, 0)>>]
            ELSE [g |-> g1,
                  extra_logs |-> <<Line("The camp feels familiar now, but offers no new comfort.", "", 0, 0)>>]
          ELSE [g |-> g1, extra_logs |-> << >>]
        main_text == <<Line(node.description, "", 0, 0)>> \o fx.extra_logs
        options == [i \in 1..Len(node.options) |->
                      [text |-> node.options[i].text,
                       cb |-> _make_option_handler(node.options[i])]]
    IN  set_scene(fx.g, Line(node.sprite_text, "", 0, 0), main_text, options)

(***************************************************************************)
(* Game: battle system                                                     *)
(***************************************************************************)
_show_battle_scene(g) ==
    IF g.current_enemy = NoEnemy THEN g
    ELSE
    LET enemy == g.current_enemy
        sprite_text == Line("vs", enemy.name, 0, 0)
        battle_status ==
            <<Line("HP", g.player.name, g.player.health, g.player.max_health),
              Line("HP", enemy.name, enemy.health, enemy.max_health)>>
            \o g.battle_log
        options == <<[text |-> "Quick Attack", cb |-> PlayerActionCallback("quick")],
                     [text |-> "Heavy Attack", cb |-> PlayerActionCallback("heavy")],
                     [text |-> "Use Medkit", cb |-> PlayerActionCallback("medkit")]>>
    IN  set_scene(g, sprite_text, battle_status, options)

\* start_battle that keeps a return target it already has
start_battle_keep_target(g, enemy, target) ==
    _show_battle_scene(
        [g EXCEPT !.current_enemy = enemy,
                  !.victory_target = IF g.victory_target # None
                                     THEN g.victory_target ELSE target,
                  !.battle_log = <<Line("A hostile appears!", enemy.name, 0, 0),
                                   Line("Choose your action:", "", 0, 0)>>])

start_battle(g, enemy, target) ==
    _show_battle_scene(
        [g EXCEPT !.current_enemy = enemy,
                  !.victory_target = target,
                  !.battle_log = <<Line("A hostile appears!", enemy.name, 0, 0),
                                   Line("Choose your action:", "", 0, 0)>>])

\* enemy_turn whose defeat branch re-renders the battle instead of ending
\* the game
enemy_turn_no_game_over(g, rnd) ==
    IF g.current_enemy = NoEnemy \/ ~is_alive(g.player) THEN g
    ELSE
    LET enemy == g.current_enemy
        td == take_damage(g.player, rnd.enemy_dmg)
        logs == Append(g.battle_log,
                       Line("attacks and deals damage!", enemy.name, td.ret, 0))
    IN  _show_battle_scene(
            [g EXCEPT !.player = td.self,
                      !.battle_log = Append(logs,
                          Line("What will you do next?", "", 0, 0))])

\* rnd.enemy_dmg is the value random.randint(base - 3, base + 3) returns
enemy_turn(g, rnd) ==
    IF g.current_enemy = NoEnemy \/ ~is_alive(g.player) THEN g
    ELSE
    LET enemy == g.current_enemy
        td == take_damage(g.player, rnd.enemy_dmg)
        logs == Append(g.battle_log,
                       Line("attacks and deals damage!", enemy.name, td.ret, 0))
    IN  IF ~is_alive(td.self)
        THEN LET defeat == Append(logs,
                     Line("You collapse. The world fades to black.", "", 0, 0))
             IN  game_over([g EXCEPT !.player = td.self, !.battle_log = defeat],
                           defeat)
        ELSE _show_battle_scene(
                 [g EXCEPT !.player = td.self,
                           !.battle_log = Append(logs,
                               Line("What will you do next?", "", 0, 0))])

\* the player's turn of player_action: the player and the enemy after it, and
\* its log lines.  rnd.hit is random.random() < 0.6, rnd.dmg the value
\* random.randint returns
player_turn(g, action, rnd) ==
    LET enemy == g.current_enemy
    IN  IF action = "quick" THEN
            LET td == take_damage(enemy, rnd.dmg)
            IN  [player |-> g.player, enemy |-> td.self,
                 logs |-> <<Line("You strike quickly for damage!", "", td.ret, 0)>>]
        ELSE IF action = "heavy" THEN
            IF rnd.hit
            THEN LET td == take_damage(enemy, rnd.dmg)
                 IN  [player |-> g.player, enemy |-> td.self,
                      logs |-> <<Line("You commit to a heavy blow for damage!", "", td.ret, 0)>>]
            ELSE [player |-> g.player, enemy |-> enemy,
                  logs |-> <<Line("You swing hard-but the enemy dodges!", "", 0, 0)>>]
        ELSE IF action = "medkit" THEN
            LET um == use_medkit(g.player)
            IN  [player |-> um.self, enemy |-> enemy, logs |-> <<um.ret>>]
        ELSE [player |-> g.player, enemy |-> enemy,
              logs |-> <<Line("You hesitate and lose your chance to act.", "", 0, 0)>>]

\* the victory branch that returns to the node the battle began at
victory_to_current_node(g, turn) ==
    LET ax == add_exp(turn.player, turn.enemy.exp_reward)
        logs == turn.logs
                \o <<Line("is defeated!", turn.enemy.name, 0, 0)>>
                \o ax.ret
        target == IF g.current_node_id \notin {None, ""} THEN g.current_node_id
                  ELSE IF g.victory_target \notin {None, ""}
                  THEN g.victory_target
                  ELSE "intro"
    IN  append_log_and_show_options(
            [g EXCEPT !.player = ax.self, !.current_enemy = NoEnemy],
            Line("Battle Won", "", 0, 0),
            logs,
            <<[text |-> "Continue...", cb |-> GoToNodeCallback(target)]>>)

\* the victory branch without the Continue option
victory_without_continue(g, turn) ==
    LET ax == add_exp(turn.player, turn.enemy.exp_reward)
        logs == turn.logs
                \o <<Line("is defeated!", turn.enemy.name, 0, 0)>>
                \o ax.ret
    IN  append_log_and_show_options(
            [g EXCEPT !.player = ax.self, !.current_enemy = NoEnemy],
            Line("Battle Won", "", 0, 0),
            logs,
            << >>)

\* the victory branch of player_action
victory(g, turn) ==
    LET ax == add_exp(turn.player, turn.enemy.exp_reward)
        logs == turn.logs
                \o <<Line("is defeated!", turn.enemy.name, 0, 0)>>
                \o ax.ret
        target == IF g.victory_target \notin {None, ""} THEN g.victory_target
                  ELSE IF g.current_node_id \notin {None, ""}
                  THEN g.current_node_id
                  ELSE "intro"
    IN  append_log_and_show_options(
            [g EXCEPT !.player = ax.self, !.current_enemy = NoEnemy],
            Line("Battle Won", "", 0, 0),
            logs,
            <<[text |-> "Continue...", cb |-> GoToNodeCallback(target)]>>)

\* player_action that checks for an enemy and not for a living player
player_action_dead_player(g, action, rnd) ==
    IF g.current_enemy = NoEnemy THEN g
    ELSE
    LET turn == player_turn(g, action, rnd)
    IN  IF ~is_alive(turn.enemy) THEN victory(g, turn)
        ELSE enemy_turn([g EXCEPT !.player = turn.player,
                                  !.current_enemy = turn.enemy,
                                  !.battle_log = turn.logs],
                        rnd)

\* player_action that gives the enemy its turn only after the player's hits
player_action_enemy_after_hits(g, action, rnd) ==
    IF g.current_enemy = NoEnemy \/ ~is_alive(g.player) THEN g
    ELSE
    LET turn == player_turn(g, action, rnd)
        g1 == [g EXCEPT !.player = turn.player,
                        !.current_enemy = turn.enemy,
                        !.battle_log = turn.logs]
    IN  IF ~is_alive(turn.enemy) THEN victory(g, turn)
        ELSE IF turn.enemy.health < g.current_enemy.health THEN enemy_turn(g1, rnd)
        ELSE _show_battle_scene(g1)

\* player_action that hands the turn back to the player after a medkit heals
player_action_heal_ends_turn(g, action, rnd) ==
    IF g.current_enemy = NoEnemy \/ ~is_alive(g.player) THEN g
    ELSE
    LET turn == player_turn(g, action, rnd)
        g1 == [g EXCEPT !.player = turn.player,
                        !.current_enemy = turn.enemy,
                        !.battle_log = turn.logs]
    IN  IF ~is_alive(turn.enemy) THEN victory(g, turn)
        ELSE IF turn.logs[1].msg = "You use a Medkit and recover"
        THEN _show_battle_scene(g1)
        ELSE enemy_turn(g1, rnd)

player_action(g, action, rnd) ==
    IF g.current_enemy = NoEnemy \/ ~is_alive(g.player) THEN g
    ELSE
    LET turn == player_turn(g, action, rnd)
    IN  IF ~is_alive(turn.enemy) THEN victory(g, turn)
        ELSE enemy_turn([g EXCEPT !.player = turn.player,
                                  !.current_enemy = turn.enemy,
                                  !.battle_log = turn.logs],
                        rnd)

\* the closure body of _make_option_handler
handler(g, option) ==
    IF option.kind = "story" THEN
        IF option.target # None THEN go_to_node(g, option.target) ELSE g
    ELSE IF option.kind = "battle" THEN
        IF option.enemy_factory # NoEnemy
        THEN start_battle(g, option.enemy_factory, option.target)
        ELSE g
    ELSE IF option.kind = "end" THEN
        game_over(g, <<Line(IF option.end_text \notin {None, ""}
                            THEN option.end_text
                            ELSE "The story ends.", "", 0, 0)>>)
    ELSE g

\* calling the callback cb
call(g, cb, rnd) ==
    IF cb.fn = "handler" THEN handler(g, cb.option)
    ELSE IF cb.fn = "player_action" THEN player_action(g, cb.action, rnd)
    ELSE IF cb.fn = "go_to_node" THEN go_to_node(g, cb.node_id)
    ELSE g

_on_button_click(g, idx, rnd) ==
    LET cb == g.button_callbacks[idx]
    IN  IF cb # NoCallback THEN call(g, cb, rnd) ELSE g

\* start that opens the story at a node nobody wrote
start_at_prologue(g) == go_to_node(g, "prologue")

start(g) == go_to_node(g, "intro")

(***************************************************************************)
(* The random values one player_action call consumes                       *)
(***************************************************************************)
\* the quick range built around the starting attack, whatever the level
quick_range_of_start_attack(p) == RandInt(20 - 5, 20 + 5)

quick_range(p) == RandInt(p.attack - 5, p.attack + 5)

\* the heavy range built around the attack, its ends scaled by 1.5 afterwards
heavy_range_scaled_after(p) ==
    RandInt(((p.attack - 5) * 3) \div 2, ((p.attack + 5) * 3) \div 2)

heavy_range(p) ==
    LET base == (p.attack * 3) \div 2
    IN  RandInt(base - 5, base + 5)

enemy_range(e) == RandInt(e.attack - 3, e.attack + 3)

NoRandom == [hit |-> FALSE, dmg |-> 0, enemy_dmg |-> 0]

Randoms(g, action) ==
    IF g.current_enemy = NoEnemy \/ ~is_alive(g.player) THEN {NoRandom}
    ELSE
    LET hits == IF action = "heavy" THEN BOOLEAN ELSE {FALSE}
        dmgs(hit) == IF action = "quick" THEN quick_range(g.player)
                     ELSE IF action = "heavy" /\ hit
                     THEN heavy_range(g.player)
                     ELSE {0}
    IN  UNION {UNION {{[hit |-> hit, dmg |-> d, enemy_dmg |-> e] :
                          e \in enemy_range(g.current_enemy)} :
                      d \in dmgs(hit)} : hit \in hits}

Actions == {"quick", "heavy", "medkit", "other"}

(***************************************************************************)
(* Specification of a session                                              *)
(***************************************************************************)
Commit(g) ==
    /\ player' = g.player
    /\ current_node_id' = g.current_node_id
    /\ current_enemy' = g.current_enemy
    /\ victory_target' = g.victory_target
    /\ battle_log' = g.battle_log
    /\ flags' = g.flags
    /\ sprite_label' = g.sprite_label
    /\ text_widget' = g.text_widget
    /\ button_text' = g.button_text
    /\ button_state' = g.button_state
    /\ button_callbacks' = g.button_callbacks
    /\ messagebox' = g.messagebox
    /\ error' = g.error

Assign(g) ==
    /\ player = g.player
    /\ current_node_id = g.current_node_id
    /\ current_enemy = g.current_enemy
    /\ victory_target = g.victory_target
    /\ battle_log = g.battle_log
    /\ flags = g.flags
    /\ sprite_label = g.sprite_label
    /\ text_widget = g.text_widget
    /\ button_text = g.button_text
    /\ button_state = g.button_state
    /\ button_callbacks = g.button_callbacks
    /\ messagebox = g.messagebox
    /\ error = g.error

\* no scenario call made
NotCalled == [fn |-> None, self |-> NoEnemy, arg |-> 0, ret |-> << >>]

\* the state after Game(root), before main() calls start()
Init ==
    /\ Assign(NewGame)
    /\ turns = 0
    /\ called = NotCalled

\* main(): game.start(), once, before the event loop runs
Start ==
    /\ current_node_id = None
    /\ Commit(start(game))
    /\ UNCHANGED <<turns, called>>

\* player_action gets past its first check
Accepted == current_enemy # NoEnemy /\ is_alive(player)

\* Tk delivers a click on button idx; a disabled button ignores it
click(g, idx, rnd) ==
    IF g.button_state[idx] = "disabled" THEN g ELSE _on_button_click(g, idx, rnd)

OnButtonClick(idx) ==
    /\ current_node_id # None
    /\ LET cb == button_callbacks[idx]
       IN  /\ \E rnd \in Randoms(game, cb.action) :
                  \E g \in {click(game, idx, rnd)} : Commit(g)
           /\ turns' = IF cb.fn = "player_action" /\ Accepted THEN turns + 1
                       ELSE turns
    /\ UNCHANGED called

\* a combat intent of any kind, delivered to Game.player_action directly
PlayerAction(action) ==
    /\ current_node_id # None
    /\ \E rnd \in Randoms(game, action) :
           \E g \in {player_action(game, action, rnd)} : Commit(g)
    /\ turns' = IF Accepted THEN turns + 1 ELSE turns
    /\ UNCHANGED called

\* a session explores at most MaxTurns accepted combat actions
WithinTurns == Accepted => turns < MaxTurns

\* the user dismisses the game-over dialog and game_over runs to its end
Dismiss ==
    /\ messagebox # None
    /\ Commit(game_over_dismissed(game))
    /\ UNCHANGED <<turns, called>>

Play ==
    \/ \E idx \in Buttons : WithinTurns /\ OnButtonClick(idx)
    \/ \E action \in Actions : WithinTurns /\ PlayerAction(action)
    \/ Dismiss

Next == Start \/ Play

Spec == Init /\ [][Next]_vars

(***************************************************************************)
(* Sessions that begin with a fixed prefix of inputs.  A prefix is run     *)
(* through the handlers above, so its end state is one the game reaches.   *)
(***************************************************************************)
Click(idx) == [on |-> "click", idx |-> idx, action |-> None, rnd |-> NoRandom]
Act(action, hit, dmg, enemy_dmg) ==
    [on |-> "player_action", idx |-> 0, action |-> action,
     rnd |-> [hit |-> hit, dmg |-> dmg, enemy_dmg |-> enemy_dmg]]

deliver(g, in) ==
    IF in.on = "click" THEN click(g, in.idx, in.rnd)
    ELSE player_action(g, in.action, in.rnd)

RECURSIVE Run(_, _)
Run(g, inputs) ==
    IF inputs = << >> THEN g ELSE Run(deliver(g, Head(inputs)), Tail(inputs))

\* k wasted turns against an enemy that hits for enemy_dmg each time
Wasted(k, enemy_dmg) == [i \in 1..k |-> Act("other", FALSE, 0, enemy_dmg)]

\* intro -> forest_edge -> Tusked Frog; three medkits used up, four wasted
\* turns and one quick hit: the player at 10 HP without medkits, the frog at 25
WoundedPrefix ==
    <<Click(1), Click(0)>>
    \o [i \in 1..3 |-> Act("medkit", FALSE, 0, 15)]
    \o Wasted(4, 15)
    \o <<Act("quick", FALSE, 25, 15)>>

InitWounded ==
    /\ Assign(Run(start(NewGame), WoundedPrefix))
    /\ turns = 0
    /\ called = NotCalled

SpecWounded == InitWounded /\ [][Play]_vars

\* post_frog -> ridge -> deep_valley -> forest_edge -> Tusked Frog again
BackToFrog == <<Click(0), Click(2), Click(2), Click(1), Click(0)>>

\* three victories over the Tusked Frog (levels 2 and 3 reached with the
\* first two, no level-up with the third), the third after k wasted turns and
\* a last frog hit of enemy_dmg; the player is back at post_frog, hurt
VeteranPrefix(k, enemy_dmg) ==
    <<Click(1), Click(0),
      Act("heavy", TRUE, 35, 9), Act("quick", FALSE, 15, 9)>>
    \o BackToFrog
    \o <<Act("heavy", TRUE, 38, 9), Act("quick", FALSE, 17, 9)>>
    \o BackToFrog
    \o Wasted(k, 15)
    \o <<Act("heavy", TRUE, 41, enemy_dmg), Act("quick", FALSE, 19, 9),
         Click(0)>>

\* the turns of the prefix have used up the session's budget: the veteran
\* walks the story (and may start battles) but fights no further turn
InitVeteran ==
    /\ \E k \in {0, 3} : \E enemy_dmg \in {9, 15} :
          Assign(Run(start(NewGame), VeteranPrefix(k, enemy_dmg)))
    /\ turns = MaxTurns
    /\ called = NotCalled

SpecVeteran == InitVeteran /\ [][Play]_vars

(***************************************************************************)
(* The end-to-end battle of the spec: the starting player against          *)
(* Enemy(max_health=50, attack=10), quick attacks only.                    *)
(***************************************************************************)
ScenarioEnemy(exp_reward) == NewEnemy("Scenario Enemy", 50, 10, exp_reward)

InitQuick ==
    \E exp_reward \in {10, 25, 60} :
        /\ Assign(start_battle(start(NewGame), ScenarioEnemy(exp_reward), "intro"))
        /\ turns = 0
        /\ called = [NotCalled EXCEPT !.fn = "start_battle",
                                      !.self = ScenarioEnemy(exp_reward)]

SpecQuick == InitQuick /\ [][PlayerAction("quick")]_vars

(***************************************************************************)
(* Player.add_exp called once on a player of any start level and exp       *)
(***************************************************************************)
\* the player the game holds at level `level`, with exp and health as given
PlayerAt(level, exp, hurt) ==
    [Player("Astronaut") EXCEPT
        !.level = level, !.exp = exp, !.skill_points = level - 1,
        !.max_health = 100 + 10 * (level - 1),
        !.attack = 20 + 2 * (level - 1),
        !.health = 100 + 10 * (level - 1) - hurt]

InitUnit ==
    /\ \E level \in 1..MaxStartLevel :
       \E exp \in 0..(exp_to_next_level([level |-> level]) - 1) :
       \E hurt \in {0, 40} :
          Assign([NewGame EXCEPT !.player = PlayerAt(level, exp, hurt)])
    /\ turns = 0
    /\ called = NotCalled

AddExp(amount) ==
    /\ called.fn = None
    /\ LET r == add_exp(player, amount)
       IN  /\ player' = r.self
           /\ called' = [fn |-> "add_exp", self |-> player, arg |-> amount,
                         ret |-> r.ret]
    /\ UNCHANGED <<current_node_id, current_enemy, victory_target, battle_log,
                   flags, sprite_label, text_widget, button_text, button_state,
                   button_callbacks, messagebox, error, turns>>

NextUnit == \E amount \in 0..MaxExpAward : AddExp(amount)

SpecUnit == InitUnit /\ [][NextUnit]_vars

(***************************************************************************)
(* Player.use_medkit called, any number of times, on a player of any       *)
(* health and with any number of medkits                                   *)
(***************************************************************************)
InitMedkit ==
    /\ \E level \in 1..MaxStartLevel :
       \E hurt \in 0..MaxHurt :
       \E medkits \in 0..MaxMedkits :
          Assign([NewGame EXCEPT
                    !.player = [PlayerAt(level, 0, hurt) EXCEPT
                                   !.inventory.Medkit = medkits]])
    /\ turns = 0
    /\ called = NotCalled

UseMedkit ==
    /\ LET r == use_medkit(player)
       IN  /\ player' = r.self
           /\ called' = [fn |-> "use_medkit", self |-> player, arg |-> 0,
                         ret |-> <<r.ret>>]
    /\ UNCHANGED <<current_node_id, current_enemy, victory_target, battle_log,
                   flags, sprite_label, text_widget, button_text, button_state,
                   button_callbacks, messagebox, error, turns>>

SpecMedkit == InitMedkit /\ [][UseMedkit]_vars

(***************************************************************************)
(* Game.go_to_node called with node ids of the story graph and with ids    *)
(* the graph does not have, at the start and by a hurt veteran             *)
(***************************************************************************)
\* ids no StoryNode of _build_story has
UnknownIds == {None, "", "Intro", "camp_bad"}

InitNavigate ==
    /\ \/ Assign(start(NewGame))
       \/ \E k \in {0, 3} : \E enemy_dmg \in {9, 15} :
              Assign(Run(start(NewGame), VeteranPrefix(k, enemy_dmg)))
    /\ turns = 0
    /\ called = NotCalled

GoToNode(node_id) ==
    /\ Commit(go_to_node(game, node_id))
    /\ called' = [NotCalled EXCEPT !.fn = "go_to_node", !.arg = node_id]
    /\ UNCHANGED turns

NextNavigate == \E node_id \in DOMAIN story_nodes \cup UnknownIds : GoToNode(node_id)

SpecNavigate == InitNavigate /\ [][NextNavigate]_vars

(***************************************************************************)
(* A story walked without fighting, in which the scene on show can also    *)
(* offer an option that lacks the payload of its kind                      *)
(***************************************************************************)
\* a story option without target, a battle option without enemy_factory, an
\* end option without end_text
MalformedOptions ==
    {Option("Go on.", "story", None, NoEnemy, None),
     Option("Fight.", "battle", "intro", NoEnemy, None),
     Option("Give up.", "end", None, NoEnemy, None)}

\* a story node is on show
StoryScene ==
    /\ current_node_id # None
    /\ sprite_label.msg \notin {"vs", "Battle Won", "Game Over"}

InitContent ==
    /\ Assign(start(NewGame))
    /\ turns = MaxTurns
    /\ called = NotCalled

\* the handler _make_option_handler(option) returns is called
ChooseOption(option) ==
    /\ StoryScene
    /\ Commit(call(game, _make_option_handler(option), NoRandom))
    /\ called' = [NotCalled EXCEPT !.fn = "handler", !.arg = option]
    /\ UNCHANGED turns

NextContent ==
    \/ Play
    \/ \E option \in MalformedOptions : ChooseOption(option)

SpecContent == InitContent /\ [][NextContent]_vars

(***************************************************************************)
(* Sessions of the new player, of the veteran at post_frog and of the      *)
(* veteran in a fourth battle with the frog: the levels 1, 3 and 4 are     *)
(* played.                                                                 *)
(***************************************************************************)
\* post_frog -> ridge -> deep_valley -> forest_edge -> Tusked Frog, and a
\* heavy blow of 41: the frog at 9
FourthFrog ==
    <<Click(2), Click(2), Click(1), Click(0), Act("heavy", TRUE, 41, 15)>>

InitCampaign ==
    /\ \/ Assign(start(NewGame))
       \/ Assign(Run(start(NewGame), VeteranPrefix(3, 15)))
       \/ Assign(Run(start(NewGame), VeteranPrefix(3, 15) \o FourthFrog))
    /\ turns = 0
    /\ called = NotCalled

SpecCampaign == InitCampaign /\ [][Play]_vars

(***************************************************************************)
(* Sessions that begin in a battle with the Tusked Frog: the new player    *)
(* (attack 20) in its first one, and the veteran (attack 24) in its fourth *)
(* after three wasted turns that leave the veteran at 15 HP and the frog   *)
(* untouched.  Every quick and every heavy draw of both attacks is played, *)
(* and the frog's strongest hit ends the veteran's game.                   *)
(***************************************************************************)
ArmedPrefix ==
    VeteranPrefix(3, 15)
    \o <<Click(2), Click(2), Click(1), Click(0)>>
    \o Wasted(3, 15)

InitArmed ==
    /\ \E prefix \in {<<Click(1), Click(0)>>, ArmedPrefix} :
           Assign(Run(start(NewGame), prefix))
    /\ turns = 0
    /\ called = NotCalled

SpecArmed == InitArmed /\ [][Play]_vars

(***************************************************************************)
(* One battle fought to its end, whatever the player chooses: the player   *)
(* is in its first battle, hurt and down to one medkit or none,            *)
(* and keeps acting.                                                       *)
(***************************************************************************)
\* intro -> forest_edge -> Tusked Frog: the three medkits used up and five
\* wasted turns, the frog hitting for 15 each time: the player at 10 HP
\* without medkits, the frog unhurt
FrogPrefix ==
    <<Click(1), Click(0)>>
    \o [i \in 1..3 |-> Act("medkit", FALSE, 0, 15)]
    \o Wasted(5, 15)

\* intro -> ridge -> deep_valley -> Valley Hunter: two medkits used at full
\* health, a heavy and a quick hit, wasted turns: the player at 1 HP with one
\* medkit, the hunter at 15
HunterPrefix ==
    <<Click(2), Click(2), Click(0)>>
    \o [i \in 1..2 |-> Act("medkit", FALSE, 0, 19)]
    \o <<Act("heavy", TRUE, 35, 16), Act("quick", FALSE, 25, 16)>>
    \o Wasted(3, 16)

InitBattle ==
    \E prefix \in {FrogPrefix, HunterPrefix} :
        LET g == Run(start(NewGame), prefix)
        IN  /\ Assign(g)
            /\ turns = 0
            /\ called = [NotCalled EXCEPT !.fn = "start_battle",
                                          !.self = g.current_enemy]

\* a combat intent delivered to Game.player_action; the observer keeps the
\* intent and the values drawn
BattleAction ==
    /\ current_node_id # None
    /\ called' \in UNION {{[called EXCEPT !.fn = "player_action",
                                          !.arg = action, !.ret = <<rnd>>] :
                               rnd \in Randoms(game, action)} :
                           action \in Actions}
    /\ \E g \in {player_action(game, called'.arg, called'.ret[1])} : Commit(g)
    /\ turns' = IF Accepted THEN turns + 1 ELSE turns

NextBattle == BattleAction \/ Dismiss

\* the player does not walk away from the battle
SpecBattle == InitBattle /\ [][NextBattle]_vars /\ WF_vars(BattleAction)

(***************************************************************************)
(* Properties                                                              *)
(***************************************************************************)
InRange(c) == 0 <= c.health /\ c.health <= c.max_health

\* the amounts around every clamp of take_damage and heal on c, negative and
\* oversized ones included
EdgeAmounts(c) ==
    {-(c.max_health + 1), -1, 0, 1, c.health - 1, c.health, c.health + 1,
     c.max_health - c.health, c.max_health - c.health + 1, c.max_health,
     c.max_health + 1, 2 * c.max_health + 1}

ClampsKeepRange(c) ==
    \A a \in EdgeAmounts(c) :
        InRange(take_damage(c, a).self) /\ InRange(heal(c, a).self)

\* C1: in every reachable state of a session the player and the current
\* enemy have 0 <= health <= max_health, and take_damage(a) and heal(a) keep
\* it so for every amount a, negative and oversized amounts included
C1_HealthInRange ==
    /\ InRange(player)
    /\ InRange(current_enemy)
    /\ ClampsKeepRange(player)
    /\ current_enemy # NoEnemy => ClampsKeepRange(current_enemy)

\* a second battle under way after a level-up, both fighters hurt
C1_Witness ==
    /\ player.level >= 2
    /\ current_enemy # NoEnemy
    /\ 0 < player.health /\ player.health < player.max_health
    /\ 0 < current_enemy.health /\ current_enemy.health < current_enemy.max_health

\* the nodes with a one-time effect: flag, effect on the player, the line of
\* the first visit and the line of every later one
OneTime ==
    [wreckage |->
        [flag |-> "wreckage_looted",
         first |-> "You gain +1 Medkit from the wreckage.",
         later |-> "You've already salvaged everything useful here."],
     rest1 |->
        [flag |-> "rest1_healed",
         first |-> "You feel a bit better. (+ HP)",
         later |-> "You've already rested here; your body aches to keep moving."],
     camp_good |->
        [flag |-> "camp_good_healed",
         first |-> "Resting at camp restores your strength. (+ HP)",
         later |-> "The camp feels familiar now, but offers no new comfort."]]

OneTimeEffect(node_id, p) ==
    IF node_id = "wreckage"
    THEN [p EXCEPT !.inventory.Medkit = p.inventory.Medkit + 1]
    ELSE [p EXCEPT !.health = Min(p.max_health,
                       p.health + (IF node_id = "rest1" THEN 15 ELSE 20))]

\* this step enters node_id (no option of these nodes leads to the node itself)
Enters(node_id) == current_node_id # node_id /\ current_node_id' = node_id

EffectLine == text_widget[Len(text_widget)]

C2_Visit(node_id) ==
    LET ot == OneTime[node_id]
    IN  /\ Enters(node_id) =>
              /\ flags'[ot.flag]
              /\ Len(text_widget') = 2
              /\ IF ~flags[ot.flag]
                 THEN /\ player' = OneTimeEffect(node_id, player)
                      /\ EffectLine'.msg = ot.first
                 ELSE /\ player' = player
                      /\ EffectLine'.msg = ot.later
        /\ flags[ot.flag] => flags'[ot.flag]
        /\ flags'[ot.flag] # flags[ot.flag] => Enters(node_id)
        /\ ot.first # ot.later

\* C2: a node's one-time effect (wreckage +1 Medkit, rest1 heal 15,
\* camp_good heal 20) is applied on the first visit and only then: the flag
\* goes from false to true there and stays true, every later visit leaves
\* the player as it is and shows the fixed later line, not the first one
C2_OneTimeEffects ==
    [][\A node_id \in DOMAIN OneTime : C2_Visit(node_id)]_vars

\* back at rest1 a second time, by way of the wreckage twice: healed by 15
\* once (66 -> 81) and one medkit richer (3 -> 4)
C2_Witness ==
    /\ current_node_id = "rest1"
    /\ EffectLine.msg = OneTime["rest1"].later
    /\ player.health = 81 /\ player.max_health = 120
    /\ player.inventory.Medkit = 4

NoOptions ==
    \A i \in Buttons :
        button_state[i] = "disabled" /\ button_callbacks[i] = NoCallback

GameOverShown == sprite_label.msg = "Game Over"

\* the game-over scene of an end option: the player did not fall
Ended == GameOverShown /\ is_alive(player)

\* the game-over scene of a defeat
Lost == GameOverShown /\ ~is_alive(player)

EndOptionAt(idx) ==
    /\ button_state[idx] = "normal"
    /\ button_callbacks[idx].fn = "handler"
    /\ button_callbacks[idx].option.kind = "end"

\* the game and its window, whatever dialog is on show
Behind(g) == [g EXCEPT !.messagebox = None]

\* this step is the click on an end option
EndSelected ==
    \E idx \in Buttons : EndOptionAt(idx) /\ game' = click(game, idx, NoRandom)

\* C3: selecting an end option yields the game-over scene with no enabled
\* option, and from then on no click and no combat action changes the current
\* node, the flags, the player, the enemy or the scene; only the game-over
\* dialog goes away when it is dismissed
C3_EndIsTerminal ==
    [][/\ EndSelected => Ended' /\ NoOptions'
       /\ Ended => Behind(game') = Behind(game)]_vars

\* an end option of deep_valley or beacon_online has been taken
C3_Witness ==
    /\ Ended /\ NoOptions
    /\ text_widget[1].msg \in {story_nodes[n].options[i].end_text :
                                 n \in DOMAIN story_nodes, i \in 1..3}

\* every value the random source can hand a player_action call in this state
AnyRandom ==
    [hit : BOOLEAN,
     dmg : {0} \cup quick_range(player) \cup heavy_range(player),
     enemy_dmg : {0} \cup enemy_range(current_enemy)]

\* C4: with no current enemy, or a current enemy or a player at 0 health,
\* player_action changes nothing for any action kind, and no enemy turn runs
C4_NoActionWhenNotAlive ==
    (current_enemy = NoEnemy \/ ~is_alive(current_enemy) \/ ~is_alive(player)) =>
        \A rnd \in AnyRandom :
            /\ \A action \in Actions : player_action(game, action, rnd) = game
            /\ enemy_turn(game, rnd) = game

\* the player has fallen and the enemy that felled it is still standing
C4_Witness ==
    /\ ~is_alive(player)
    /\ current_enemy # NoEnemy /\ is_alive(current_enemy)

\* the player without its health
Stats(p) == [p EXCEPT !.health = 0]

\* the lines of a text that report an XP award
XpLines(text) == {i \in 1..Len(text) : text[i].msg = "gained XP"}

\* C5: the starting player against Enemy(50, 50, attack 10) with quick attacks
\* only: whatever is drawn, the enemy is down after at most 4 accepted
\* actions, the player is alive, and the enemy's reward has been granted once
C5_QuickBattleIsWon ==
    /\ is_alive(player)
    /\ turns <= 4
    /\ current_enemy # NoEnemy =>
          /\ turns < 4
          /\ Accepted
          /\ Stats(player) = Stats(Player("Astronaut"))
          /\ XpLines(text_widget) = {}
    /\ current_enemy = NoEnemy =>
          /\ sprite_label.msg = "Battle Won"
          /\ Stats(player) =
                 Stats(add_exp(Player("Astronaut"), called.self.exp_reward).self)
          /\ Cardinality(XpLines(text_widget)) = 1
          /\ \A i \in XpLines(text_widget) :
                 text_widget[i].n = called.self.exp_reward

\* won with the fourth quick attack, the reward of 60 taken as two level-ups
C5_Witness ==
    /\ turns = 4
    /\ current_enemy = NoEnemy
    /\ called.self.exp_reward = 60
    /\ player.level = 3 /\ player.exp = 10

\* the levels add_exp has added, and the thresholds it paid for them
Gained == player.level - called.self.level

Threshold(level) == exp_to_next_level([level |-> level])

\* add_exp has been called with at least the two thresholds from its level
TwoThresholdsAwarded ==
    /\ called.fn = "add_exp"
    /\ called.arg >= Threshold(called.self.level) + Threshold(called.self.level + 1)

\* every level gained brought its bonus once, in ascending order of level
BonusPerLevel ==
    /\ player.max_health = called.self.max_health + 10 * Gained
    /\ player.attack = called.self.attack + 2 * Gained
    /\ player.skill_points = called.self.skill_points + Gained
    /\ Gained > 0 => player.health = player.max_health
    /\ Len(called.ret) = 1 + Gained
    /\ \A i \in 1..Gained :
          /\ called.ret[1 + i].msg = "leveled up to"
          /\ called.ret[1 + i].n = called.self.level + i

\* C6 as stated: an award of at least threshold(L) + threshold(L+1) triggers
\* exactly two level-ups
C6_ExactlyTwoLevelUps ==
    TwoThresholdsAwarded => Gained = 2 /\ BonusPerLevel

\* C6, amended: such an award triggers at least two level-ups, exactly two
\* when exp + amount is below the sum of the three thresholds from L, applied
\* in order and each with its bonus once
C6_AtLeastTwoLevelUps ==
    TwoThresholdsAwarded =>
        /\ Gained >= 2
        /\ (called.self.exp + called.arg
               < Threshold(called.self.level) + Threshold(called.self.level + 1)
                 + Threshold(called.self.level + 2)) => Gained = 2
        /\ BonusPerLevel

\* 50 XP to a hurt level-1 player with 0 exp: levels 2 and 3, healed to 120
C6_Witness ==
    /\ TwoThresholdsAwarded
    /\ called.self.level = 1 /\ called.self.exp = 0 /\ called.arg = 50
    /\ called.self.health < called.self.max_health
    /\ player.level = 3 /\ player.exp = 0 /\ player.health = 120

\* this step is the player action that defeats the current enemy
Victory == Accepted /\ current_enemy' = NoEnemy

OnlyContinue ==
    /\ button_state = (0 :> "normal" @@ 1 :> "disabled" @@ 2 :> "disabled")
    /\ button_text[0] = "Continue..."
    /\ button_callbacks[1] = NoCallback /\ button_callbacks[2] = NoCallback

\* C7: the player action that brings the enemy to 0 health grants the enemy's
\* reward once, level-ups included, runs no enemy turn, leaves no current
\* enemy and shows one enabled option, Continue, which enters the battle's
\* return target
C7_VictoryStep ==
    [][Victory =>
        LET ax == add_exp(player, current_enemy.exp_reward)
            n == Len(text_widget)
        IN  /\ player' = ax.self
            /\ battle_log' = battle_log
            /\ Len(text_widget') = n + 2 + Len(ax.ret)
            /\ SubSeq(text_widget', 1, n) = text_widget
            /\ text_widget'[n + 1].msg \in {"You strike quickly for damage!",
                                           "You commit to a heavy blow for damage!"}
            /\ text_widget'[n + 2] = Line("is defeated!", current_enemy.name, 0, 0)
            /\ SubSeq(text_widget', n + 3, n + 2 + Len(ax.ret)) = ax.ret
            /\ sprite_label'.msg = "Battle Won"
            /\ OnlyContinue'
            /\ victory_target' = victory_target
            /\ click(game', 0, NoRandom).current_node_id = victory_target
            /\ click(game', 0, NoRandom).error = None]_vars

\* the Tusked Frog or the Forest Stalker is down: level 2, Continue on show,
\* the story still at forest_edge and bound for post_frog
C7_Witness ==
    /\ sprite_label.msg = "Battle Won"
    /\ OnlyContinue
    /\ current_enemy = NoEnemy
    /\ player.level = 2
    /\ current_node_id = "forest_edge" /\ victory_target = "post_frog"

\* this step is the enemy turn that brings the player to 0 health
Defeat == is_alive(player) /\ ~is_alive(player')

\* C8: when the enemy's turn brings the player to 0 health the game-over
\* scene is shown with no enabled option, and from then on no click and no
\* combat action changes any state; only the game-over dialog goes away when
\* it is dismissed
C8_DefeatIsTerminal ==
    [][/\ Defeat =>
              /\ Lost' /\ NoOptions'
              /\ text_widget'[Len(text_widget')].msg
                     = "You collapse. The world fades to black."
       /\ Lost => Behind(game') = Behind(game)]_vars

\* the defeat narration is on show and every button is off
C8_Witness ==
    /\ Lost /\ NoOptions
    /\ text_widget[Len(text_widget)].msg = "You collapse. The world fades to black."
    /\ player.health = 0

\* a battle is awaiting the player's action
BattleScene == sprite_label.msg = "vs"

\* C9 as stated: outside an active combat (before any battle, after a
\* victory, after a defeat) there is no current enemy
C9_EnemyOnlyInCombat == ~BattleScene => current_enemy = NoEnemy

InputErrorLines ==
    {"You rummage through your pack... no medkits left!",
     "You hesitate and lose your chance to act."}

\* this step is a player_action that was an input error: a medkit asked of an
\* empty pack, or an unrecognized action kind
InputError ==
    /\ Accepted
    /\ current_enemy' # NoEnemy
    /\ battle_log'[1].msg \in InputErrorLines

\* C10 as stated: an input error in combat leaves player health, inventory
\* and enemy health as they were before the action
C10_InputErrorChangesNothing ==
    [][InputError =>
          /\ player'.health = player.health
          /\ player'.inventory = player.inventory
          /\ current_enemy'.health = current_enemy.health]_vars

\* C10, amended: an input error in combat is reported in the log and the
\* action itself has no effect (inventory and enemy as before), but it uses
\* up the turn: the enemy's attack follows, and the player's health is lower
\* by a damage in attack-3..attack+3, floored at 0
C10_InputErrorWastesTurn ==
    [][InputError =>
          /\ player'.inventory = player.inventory
          /\ current_enemy' = current_enemy
          /\ \E e \in (current_enemy.attack - 3)..(current_enemy.attack + 3) :
                player' = [player EXCEPT !.health = Max(0, player.health - e)]
          /\ battle_log'[2].msg = "attacks and deals damage!"]_vars

\* a medkit was asked of the empty pack; the enemy has struck since
C10_Witness ==
    /\ current_enemy # NoEnemy
    /\ Len(battle_log) >= 2
    /\ battle_log[1].msg = "You rummage through your pack... no medkits left!"
    /\ battle_log[2].msg = "attacks and deals damage!"
    /\ player.inventory.Medkit = 0

\* use_medkit has just been called on a player with c medkits, c in counts
MedkitCalled(counts) ==
    called.fn = "use_medkit" /\ called.self.inventory.Medkit \in counts

NoneLeft == Line("You rummage through your pack... no medkits left!", "", 0, 0)

\* C11: use_medkit on a player with 0 medkits leaves the player (health and
\* inventory) as it was and returns the "no medkits left" message; the count
\* is never below 0
C11_EmptyPackMedkit ==
    /\ player.inventory.Medkit >= 0
    /\ MedkitCalled({0}) => player = called.self /\ called.ret = <<NoneLeft>>

\* a hurt player asked the empty pack for a medkit and is as hurt as before
C11_Witness ==
    /\ MedkitCalled({0})
    /\ player.inventory.Medkit = 0
    /\ player.health = called.self.health
    /\ player.health + 30 <= player.max_health

\* C20: use_medkit on a player with c > 0 medkits leaves c - 1 medkits and
\* raises health by min(30, max_health - health), the amount it reports, also
\* when that amount is 0; no count is ever below 0
C20_MedkitUse ==
    /\ player.inventory.Medkit >= 0
    /\ MedkitCalled(1..MaxMedkits) =>
          LET restored == Min(30, called.self.max_health - called.self.health)
          IN  /\ player = [called.self EXCEPT
                              !.inventory.Medkit = called.self.inventory.Medkit - 1,
                              !.health = called.self.health + restored]
              /\ called.ret = <<Line("You use a Medkit and recover", "", restored, 0)>>

\* the last medkit was used at full health: nothing restored, the medkit gone
C20_Witness ==
    /\ MedkitCalled({1})
    /\ called.self.health = called.self.max_health
    /\ player.inventory.Medkit = 0
    /\ called.ret[1].n = 0

\* the callbacks the scene on show offers, in slot order
SceneOptions ==
    IF sprite_label.msg = "vs"
    THEN <<PlayerActionCallback("quick"), PlayerActionCallback("heavy"),
           PlayerActionCallback("medkit")>>
    ELSE IF sprite_label.msg = "Battle Won"
    THEN <<GoToNodeCallback(victory_target)>>
    ELSE IF sprite_label.msg = "Game Over"
    THEN << >>
    ELSE [i \in 1..Len(story_nodes[current_node_id].options) |->
             _make_option_handler(story_nodes[current_node_id].options[i])]

\* slots 0..k-1 enabled and bound to the k options, slots k..2 disabled,
\* blanked and unbound
SlotModel(options) ==
    /\ Len(options) <= 3
    /\ \A i \in Buttons :
          IF i < Len(options)
          THEN /\ button_state[i] = "normal"
               /\ button_callbacks[i] = options[i + 1]
               /\ button_text[i] # "---"
          ELSE /\ button_state[i] = "disabled"
               /\ button_callbacks[i] = NoCallback
               /\ button_text[i] = "---"

\* a click on a disabled or unbound slot, delivered by Tk or straight to
\* _on_button_click, is a no-op and raises nothing
AbsentSlotIsNoOp ==
    \A idx \in Buttons :
        (button_state[idx] = "disabled" \/ button_callbacks[idx] = NoCallback) =>
            \A rnd \in AnyRandom :
                /\ click(game, idx, rnd) = game
                /\ _on_button_click(game, idx, rnd) = game

\* a click runs the option the scene on show has in that slot, nothing else
OnlySceneOptions ==
    \A idx \in Buttons : \A rnd \in Randoms(game, button_callbacks[idx].action) :
        _on_button_click(game, idx, rnd) =
            IF idx < Len(SceneOptions) THEN call(game, SceneOptions[idx + 1], rnd)
            ELSE game

\* C12: every scene shown since start() fills the three slots in order:
\* slots 0..k-1 are enabled and bound to the k options of this scene, slots
\* k..2 are disabled and unbound; a click on a disabled or unbound slot changes
\* nothing and raises nothing; no option of an earlier scene can be run
C12_ThreeSlotModel ==
    /\ AbsentSlotIsNoOp
    /\ error = None
    /\ current_node_id # None =>
          /\ sprite_label.msg \notin {"vs", "Battle Won", "Game Over"} =>
                 sprite_label.msg = story_nodes[current_node_id].sprite_text
          /\ SlotModel(SceneOptions)
          /\ OnlySceneOptions

\* the one-option scene after the three-option battle against the Tusked
\* Frog: slots 1 and 2 are off and unbound
C12_Witness ==
    /\ sprite_label.msg = "Battle Won"
    /\ button_callbacks = (0 :> GoToNodeCallback("post_frog") @@ 1 :> NoCallback
                           @@ 2 :> NoCallback)
    /\ button_text[1] = "---" /\ button_state[2] = "disabled"
    /\ \E i \in 1..Len(text_widget) :
          text_widget[i] = Line("is defeated!", "Tusked Frog", 0, 0)

\* the enemy's health after the player_action call that led from the current
\* state to g: 0 if the call discarded the enemy as defeated
EnemyHealthIn(g) ==
    IF g.current_enemy = NoEnemy THEN 0 ELSE g.current_enemy.health

\* the line that call logged for the player's own turn
ActionLineIn(g) ==
    IF g.current_enemy = NoEnemy THEN g.text_widget[Len(text_widget) + 1]
    ELSE g.battle_log[1]

\* C13: in every state that accepts an action, a quick action takes a damage
\* d with attack - 5 <= d <= attack + 5 of the player's current attack (15..25
\* for attack 20) from the enemy, leaving it max(0, health - d), and narrates d
C13_QuickDamage ==
    Accepted =>
        \A rnd \in Randoms(game, "quick") :
            \E g \in {player_action(game, "quick", rnd)} :
                \E d \in (player.attack - 5)..(player.attack + 5) :
                    /\ player.attack = 20 => 15 <= d /\ d <= 25
                    /\ EnemyHealthIn(g) = Max(0, current_enemy.health - d)
                    /\ ActionLineIn(g) = Line("You strike quickly for damage!", "", d, 0)

\* a quick hit of 26, inside the range 19..29 of attack 24, has landed
C13_Witness ==
    /\ current_enemy # NoEnemy
    /\ player.attack = 24
    /\ battle_log[1] = Line("You strike quickly for damage!", "", 26, 0)
    /\ current_enemy.health = current_enemy.max_health - 26

\* C14: in every state that accepts an action, a heavy action either is
\* dodged, leaving the enemy's health as it was, or takes a damage d with
\* b - 5 <= d <= b + 5 from the enemy, where b is 1.5 * attack truncated to an
\* integer; there is no third outcome
C14_HeavyOutcomes ==
    Accepted =>
        \A rnd \in Randoms(game, "heavy") :
            \E g \in {player_action(game, "heavy", rnd)} :
            LET b == (player.attack * 3) \div 2
            IN  \/ /\ g.current_enemy = current_enemy
                   /\ ActionLineIn(g) = Line("You swing hard-but the enemy dodges!", "", 0, 0)
                \/ \E d \in (b - 5)..(b + 5) :
                       /\ EnemyHealthIn(g) = Max(0, current_enemy.health - d)
                       /\ ActionLineIn(g) =
                              Line("You commit to a heavy blow for damage!", "", d, 0)

\* a heavy blow of 38, inside the range 31..41 of attack 24 (b = 36), has
\* landed
C14_Witness ==
    /\ current_enemy # NoEnemy
    /\ player.attack = 24
    /\ battle_log[1] = Line("You commit to a heavy blow for damage!", "", 38, 0)
    /\ current_enemy.health = current_enemy.max_health - 38

\* this step is a go_to_node call with an id the story graph does not have
UnknownNodeEntered ==
    called'.fn = "go_to_node" /\ called'.arg \notin DOMAIN story_nodes

\* C15: go_to_node with a node id absent from the story graph fails with an
\* error (KeyError) and leaves the current node, the flags, the player, the
\* enemy and the scene as they were; with an id of the graph it raises nothing
C15_UnknownNodeFails ==
    [][/\ UnknownNodeEntered =>
              /\ error' = "KeyError"
              /\ [game' EXCEPT !.error = None] = [game EXCEPT !.error = None]
       /\ ~UnknownNodeEntered => error' = error]_vars

\* the hurt veteran, having walked to rest1, asked for a node that does not
\* exist: the call failed and the game is still at rest1
C15_Witness ==
    /\ called.fn = "go_to_node" /\ called.arg = "camp_bad"
    /\ error = "KeyError"
    /\ current_node_id = "rest1"
    /\ flags.rest1_healed
    /\ player.level = 3 /\ player.health < player.max_health

HitLines == {"You strike quickly for damage!", "You commit to a heavy blow for damage!"}

\* take_damage(a) on c returns what c's health went down by
ReturnsReduction(c) ==
    \A a \in EdgeAmounts(c) :
        take_damage(c, a).ret = c.health - take_damage(c, a).self.health

\* C16 as stated: take_damage returns the real reduction of health for every
\* health and amount, so in every accepted combat action the damage narrated
\* for the player's hit and for the enemy's attack is what the target's health
\* went down by
C16_NarrationMatchesDamage ==
    [][Accepted =>
          LET own == ActionLineIn(game')
              restored == IF own.msg = "You use a Medkit and recover" THEN own.n
                          ELSE 0
          IN  /\ ReturnsReduction(player) /\ ReturnsReduction(current_enemy)
              /\ own.msg \in HitLines =>
                     own.n = current_enemy.health - EnemyHealthIn(game')
              /\ current_enemy' # NoEnemy =>
                     /\ battle_log'[2].msg = "attacks and deals damage!"
                     /\ battle_log'[2].n = player.health + restored - player'.health]_vars

\* the victory scene
Won == sprite_label.msg = "Battle Won"

(***************************************************************************)
(* The turns of one battle, by either way an input reaches player_action   *)
(* (a click on a combat button, a direct call), until the battle is over   *)
(* and the victory scene's Continue is clicked or the dialog dismissed.    *)
(* The battles are those of FrogPrefix (10 HP, the pack empty) and of      *)
(* HunterPrefix (1 HP, one medkit): they end within a few turns of         *)
(* themselves, so the turns are not capped.                                *)
(***************************************************************************)
InitTurns ==
    /\ \E prefix \in {FrogPrefix, HunterPrefix} :
           Assign(Run(start(NewGame), prefix))
    /\ turns = 0
    /\ called = NotCalled

NextTurns ==
    \/ \E idx \in Buttons : (Accepted \/ Won) /\ OnButtonClick(idx)
    \/ \E action \in Actions : PlayerAction(action)
    \/ Dismiss

SpecTurns == InitTurns /\ [][NextTurns]_vars

\* C17: an accepted player action that leaves the enemy alive - a hit, a
\* dodged heavy, a medkit used, a medkit asked of the empty pack, an
\* unrecognized action - is followed by exactly one enemy turn before the next
\* input; Won is entered only by a player's hit, with no enemy turn after it,
\* and Lost only by an enemy turn; the player's health goes down only in an
\* enemy turn and the enemy's health only in a player's hit
C17_TurnOrder ==
    [][IF Accepted
       THEN LET own == ActionLineIn(game')
                restored == IF own.msg = "You use a Medkit and recover"
                            THEN own.n ELSE 0
            IN  IF current_enemy' = NoEnemy
                THEN /\ own.msg \in HitLines
                     /\ own.n >= current_enemy.health
                     /\ Won'
                     /\ \A i \in (Len(text_widget) + 1)..Len(text_widget') :
                            text_widget'[i].msg # "attacks and deals damage!"
                     /\ player'.health >= player.health
                ELSE /\ is_alive(current_enemy')
                     /\ current_enemy'.health <= current_enemy.health
                     /\ current_enemy'.health < current_enemy.health =>
                            own.msg \in HitLines
                     /\ [current_enemy' EXCEPT !.health = 0]
                            = [current_enemy EXCEPT !.health = 0]
                     /\ Len(battle_log') = 3
                     /\ battle_log'[1] = own
                     /\ battle_log'[2].msg = "attacks and deals damage!"
                     /\ \E e \in (current_enemy.attack - 3)..(current_enemy.attack + 3) :
                            /\ battle_log'[2] = Line("attacks and deals damage!",
                                                     current_enemy.name, e, 0)
                            /\ player'.health = Max(0, player.health + restored - e)
                     /\ IF is_alive(player')
                        THEN /\ BattleScene' /\ Accepted'
                             /\ battle_log'[3].msg = "What will you do next?"
                        ELSE /\ Lost'
                             /\ battle_log'[3].msg
                                    = "You collapse. The world fades to black."
       ELSE /\ player'.health >= player.health
            /\ (Lost' => Lost) /\ ~Won'
            /\ current_enemy # NoEnemy => current_enemy' = current_enemy]_vars

\* the player at 1 HP with the last medkit used it and recovered 30, the
\* Valley Hunter struck back for 13: the battle goes on with the player at
\* 18 HP and the pack empty
C17_Witness ==
    /\ BattleScene /\ Accepted
    /\ Len(battle_log) = 3
    /\ battle_log[1].msg = "You use a Medkit and recover"
    /\ battle_log[1].n = 30
    /\ battle_log[2] = Line("attacks and deals damage!", "Valley Hunter", 13, 0)
    /\ battle_log[3].msg = "What will you do next?"
    /\ player.health = 18
    /\ player.inventory.Medkit = 0
    /\ turns = 1

\* the reference threshold of level l, and the thresholds of levels a..b paid
\* one after the other
RefThreshold(l) == 20 + (l - 1) * 10

RECURSIVE RefPaid(_, _)
RefPaid(a, b) == IF a > b THEN 0 ELSE RefThreshold(a) + RefPaid(a + 1, b)

\* C18: add_exp(amount) on a player of any level and exp, for any amount >= 0,
\* ends where the reference loop ends: the thresholds 20 + (l - 1) * 10 of the
\* levels passed have been paid out of exp + amount and what is left is below
\* the threshold of the level reached; every level gained brought +1 level,
\* +1 skill point, +10 max_health, +2 attack and full health; the log is the
\* XP line followed by one line per level gained, in ascending order
C18_AddExpMatchesReference ==
    called.fn = "add_exp" =>
        /\ Gained >= 0
        /\ 0 <= player.exp /\ player.exp < RefThreshold(player.level)
        /\ called.self.exp + called.arg
               = player.exp + RefPaid(called.self.level, player.level - 1)
        /\ BonusPerLevel
        /\ Gained = 0 => player.health = called.self.health
        /\ player.name = called.self.name
        /\ player.inventory = called.self.inventory
        /\ called.ret[1] = Line("gained XP", called.self.name, called.arg, 0)
        /\ \A i \in 1..Gained :
               called.ret[1 + i] = Line("leveled up to", called.self.name,
                                        called.self.level + i,
                                        called.self.skill_points + i)

\* 100 XP to a level-2 player one point short of level 3: thresholds 30, 40
\* and 50 are paid, level 5 is reached with 9 exp left, the log has 4 lines
C18_Witness ==
    /\ called.fn = "add_exp"
    /\ called.self.level = 2 /\ called.self.exp = 29 /\ called.arg = 100
    /\ player.level = 5 /\ player.exp = 9
    /\ Len(called.ret) = 4

\* the battle options of the story: where they are offered, the enemy they
\* are configured with and the node a victory leads to
ConfiguredBattles ==
    {[node |-> "forest_edge", idx |-> 0, name |-> "Tusked Frog",
      max_health |-> 50, attack |-> 12, exp_reward |-> 25, target |-> "post_frog"],
     [node |-> "forest_edge", idx |-> 2, name |-> "Forest Stalker",
      max_health |-> 60, attack |-> 14, exp_reward |-> 30, target |-> "post_frog"],
     [node |-> "deep_forest", idx |-> 0, name |-> "Carnivorous Bloom",
      max_health |-> 70, attack |-> 15, exp_reward |-> 35, target |-> "post_plant"],
     [node |-> "deep_valley", idx |-> 0, name |-> "Valley Hunter",
      max_health |-> 75, attack |-> 16, exp_reward |-> 40,
      target |-> "probe_salvaged"]}

\* this step is the click on battle option b, on show at its node
BattleChosen(b) ==
    /\ current_node_id = b.node
    /\ button_state[b.idx] = "normal"
    /\ button_callbacks[b.idx].fn = "handler"
    /\ game' = click(game, b.idx, NoRandom)

\* C19: every choice of a battle option, the first as well as a repeated one,
\* starts combat against an enemy at full health with the option's configured
\* stats, records the option's target as the return target, leaves the current
\* node and the player as they are, and waits for the player's action: the
\* log holds the two opening lines and no enemy attack.  An enemy appears in
\* no other way
C19_FreshEnemy ==
    [][/\ \A b \in ConfiguredBattles :
             BattleChosen(b) =>
                 /\ current_enemy' = [name |-> b.name, max_health |-> b.max_health,
                                      health |-> b.max_health, attack |-> b.attack,
                                      exp_reward |-> b.exp_reward]
                 /\ victory_target' = b.target
                 /\ current_node_id' = current_node_id
                 /\ player' = player
                 /\ flags' = flags
                 /\ BattleScene' /\ Accepted'
                 /\ battle_log' = <<Line("A hostile appears!", b.name, 0, 0),
                                    Line("Choose your action:", "", 0, 0)>>
                 /\ button_callbacks' = (0 :> PlayerActionCallback("quick")
                                         @@ 1 :> PlayerActionCallback("heavy")
                                         @@ 2 :> PlayerActionCallback("medkit"))
       /\ (current_enemy = NoEnemy /\ current_enemy' # NoEnemy) =>
             \E b \in ConfiguredBattles : BattleChosen(b)]_vars

\* the Tusked Frog, beaten once (25 XP: level 2 with 5 exp), has been called
\* out again at forest_edge and stands at full health
C19_Witness ==
    /\ player.level = 2 /\ player.exp = 5
    /\ current_node_id = "forest_edge"
    /\ BattleScene
    /\ current_enemy = NewEnemy("Tusked Frog", 50, 12, 25)
    /\ Len(battle_log) = 2
    /\ victory_target = "post_frog"

\* C21 as stated: choosing an option that lacks the payload of its kind (a
\* story option without target, a battle option without enemy factory, an end
\* option without end text) aborts with an error: it neither does nothing
\* silently nor shows a default
C21_MalformedOptionFails ==
    [][\A option \in MalformedOptions :
          ChooseOption(option) =>
              /\ error' # None
              /\ [game' EXCEPT !.error = None] = [game EXCEPT !.error = None]]_vars

\* the health the player can still lose in this battle: what it has and what
\* its medkits can restore
Potential == player.health + 30 * player.inventory.Medkit

\* the scenario's battles begin with 10 health and a medkit against the frog,
\* with 15 and a medkit against the stalker
MaxStartPotential == 1 + 30

\* every exchange costs at least attack - 3 of the potential, only the last
\* action may cost nothing
BattleBound == (MaxStartPotential - 1) \div (called.self.attack - 3) + 1

\* what the exchanges so far have cost at the least, and what is left
Ranking ==
    Accepted => turns * (current_enemy.attack - 3) + Potential <= MaxStartPotential

\* C22: a battle ends whatever the player chooses and whatever is drawn: each
\* accepted action that does not end it lowers health + 30 * medkits by at
\* least the enemy's attack - 3 > 0, so the number of accepted actions stays
\* within a bound and, as long as the player keeps acting, Won or Lost is
\* reached
C22_BattleTerminates ==
    /\ [][(Accepted /\ Accepted') =>
              /\ current_enemy.attack - 3 > 0
              /\ Potential' <= Potential - (current_enemy.attack - 3)]_vars
    /\ [](Ranking /\ turns <= BattleBound)
    /\ <>(Won \/ Lost)

\* the player fell with the last action the bound allows, the medkit used up
C22_Witness ==
    /\ Lost
    /\ turns = BattleBound
    /\ player.inventory.Medkit = 0

\* the nodes the options of the authored story lead to: the target of a story
\* option, the victory target of a battle option
Targets ==
    UNION {{story_nodes[id].options[i].target :
               i \in {j \in DOMAIN story_nodes[id].options :
                         story_nodes[id].options[j].kind \in {"story", "battle"}}} :
           id \in DOMAIN story_nodes}

\* the node ids the callbacks on the enabled buttons would enter
Bound ==
    {IF button_callbacks[i].fn = "go_to_node" THEN button_callbacks[i].node_id
     ELSE button_callbacks[i].option.target :
        i \in {j \in Buttons :
                  /\ button_state[j] = "normal"
                  /\ \/ button_callbacks[j].fn = "go_to_node"
                     \/ /\ button_callbacks[j].fn = "handler"
                        /\ button_callbacks[j].option.kind \in {"story", "battle"}}}

\* C23: the authored story graph is closed - every target of a story option
\* and every victory target of a battle option is a node of the graph - and in
\* a session go_to_node is never called with an unknown id: no KeyError, the
\* current node, the pending victory target and every node an enabled button
\* leads to are nodes of the graph
C23_GraphClosed ==
    /\ Targets \subseteq DOMAIN story_nodes
    /\ error = None
    /\ current_node_id \in DOMAIN story_nodes \cup {None}
    /\ victory_target \in DOMAIN story_nodes \cup {None}
    /\ Bound \subseteq DOMAIN story_nodes

\* the victory target of the Tusked Frog battle entered after the victory
C23_Witness ==
    /\ current_node_id = "post_frog"
    /\ victory_target = "post_frog"
    /\ player.level = 2
    /\ error = None
    /\ "deep_forest" \in Bound

\* the stats Player.__init__ and the level-ups of add_exp give at a level
StatsAt(level) ==
    [max_health |-> 100 + 10 * (level - 1),
     attack |-> 20 + 2 * (level - 1),
     skill_points |-> level - 1]

\* C24: in every reachable state the player's level is at least 1 and
\* max_health, attack and skill_points are the values of that level:
\* 100 + 10 * (level - 1), 20 + 2 * (level - 1) and level - 1; nothing but a
\* level-up changes them
C24_StatsFollowLevel ==
    /\ player.level >= 1
    /\ [max_health |-> player.max_health, attack |-> player.attack,
        skill_points |-> player.skill_points] = StatsAt(player.level)

\* the veteran reached level 4 in the session and walked on to deep_forest
C24_Witness ==
    /\ player.level = 4
    /\ player.max_health = 130 /\ player.attack = 26 /\ player.skill_points = 3
    /\ current_node_id = "deep_forest"
    /\ current_enemy = NoEnemy

\* C25: in every reachable state 0 <= exp < exp_to_next_level(): add_exp pays
\* thresholds until what is left is below the threshold of the level reached
C25_ExpBelowThreshold ==
    /\ 0 <= player.exp
    /\ player.exp < exp_to_next_level(player)

\* the veteran beat the Tusked Frog a fourth time: 25 + 25 XP at level 3 paid
\* the threshold of 40 and left 10 at level 4
C25_Witness ==
    /\ Won
    /\ player.level = 4
    /\ player.exp = 10
    /\ exp_to_next_level(player) = 50

\* the callback does something when called
Effective(cb) ==
    \/ cb.fn \in {"player_action", "go_to_node"}
    \/ /\ cb.fn = "handler"
       /\ \/ cb.option.kind = "story" /\ cb.option.target # None
          \/ cb.option.kind = "battle" /\ cb.option.enemy_factory # NoEnemy
          \/ cb.option.kind = "end"

EnabledOptions ==
    {i \in Buttons : button_state[i] = "normal" /\ Effective(button_callbacks[i])}

\* C26: no dead ends: every state of a started session that is not the
\* game-over scene has at least one enabled option that does something
C26_NoDeadEnds ==
    (current_node_id # None /\ ~GameOverShown) => EnabledOptions # {}

\* the victory scene over the Tusked Frog: Continue is the one option
C26_Witness ==
    /\ Won
    /\ victory_target = "post_frog"
    /\ EnabledOptions = {0}
    /\ button_callbacks[0] = GoToNodeCallback("post_frog")

\* C27: the player's attack is even in every reachable state, so that
\* int(attack * 1.5) drops nothing and the heavy range is exactly
\* [1.5 * attack - 5, 1.5 * attack + 5]
C27_AttackEven ==
    /\ player.attack % 2 = 0
    /\ \A d \in heavy_range(player) :
           3 * player.attack - 10 <= 2 * d /\ 2 * d <= 3 * player.attack + 10
    /\ {3 * player.attack - 10, 3 * player.attack + 10}
           \subseteq {2 * d : d \in heavy_range(player)}

\* the veteran at level 4 in a battle: attack 26, heavy hits of 34 to 44
C27_Witness ==
    /\ sprite_label.msg = "vs"
    /\ current_enemy # NoEnemy
    /\ player.attack = 26
    /\ 34 \in heavy_range(player) /\ 44 \in heavy_range(player)

====
